---- MODULE Spec2Model ----
(***************************************************************************)
(* Chunk-construction pipeline of GitGist (apps/api/src/services):         *)
(* simpleChunker.ts (chunk, chunkAll, combineSmallChunks,                  *)
(* splitLargeChunks), astDataEmbedder.ts (convertAnalysesToChunks) and     *)
(* embeddingService.ts (embedRepository, processBatch), and                *)
(* astAnalysisService.ts (analyzeRepository), which runs them in stages,   *)
(* and LocalStorage (saveMultipleFileAnalyses, loadRepoAnalyses).          *)
(*                                                                         *)
(* Strings are sequences of one-character strings, so that length,         *)
(* concatenation, split('\n'), join and substring tests are computed the   *)
(* way the JavaScript code computes them.                                  *)
(***************************************************************************)
EXTENDS Integers, Sequences, FiniteSets, TLC

VARIABLES
    analyses,     \* FileAnalysis[] handed to chunkAll / convertAnalysesToChunks
    options,      \* ChunkOptions argument (possibly partial or omitted)
    pc,           \* position of the caller
    i,            \* index of the next element visited by analyses.flatMap
    out,          \* return value of the latest chunk(analysis, options) call
    chunks,       \* chunks accumulated by flatMap; the result of chunkAll
    splitMax,     \* maxSize argument of the splitLargeChunks call
    parts,        \* result of splitLargeChunks(chunks, splitMax)
    embedChunks,  \* result of ASTDataEmbedder.convertAnalysesToChunks(analyses)
    echunks,      \* SimpleChunk[] handed to embedRepository, a chunk standing by its id
    epc,          \* position of embedRepository
    isInitialized,\* EmbeddingService.isInitialized
    ei,           \* loop variable i of embedRepository
    eresult,      \* result: the EmbeddingResult embedRepository builds
    batches,      \* the batches handed to processBatch so far
    upserts,      \* the index.upsert calls so far: vector ids and outcome
    apc,          \* position of analyzeRepository
    ainput,       \* its arguments and the files the fetcher returns for repoUrl
    alocal,       \* its locals: analyses, processedFiles, errors, chunks, ...
    atrace,       \* what it did: progressCallback arguments and stages run
    spc,          \* position of the caller of LocalStorage
    sinput,       \* analyses handed to saveMultipleFileAnalyses
    sdisk,        \* the clock and the directories below baseDir/<repo>
    slocal,       \* locals of saveMultipleFileAnalyses, result of loadRepoAnalyses
    cpc,          \* position of each concurrent call inside ensureInitialized
    loadCount,    \* how many times pipeline(...) has resolved
    callCount     \* calls of embedRepository and searchSimilar made so far

chunkerVars == <<analyses, options, pc, i, out, chunks, splitMax, parts, embedChunks>>
embedderVars == <<echunks, epc, isInitialized, ei, eresult, batches, upserts>>
analyzerVars == <<apc, ainput, alocal, atrace>>
storageVars == <<spc, sinput, sdisk, slocal>>
loaderVars == <<cpc, loadCount, callCount>>
vars == <<analyses, options, pc, i, out, chunks, splitMax, parts, embedChunks,
          echunks, epc, isInitialized, ei, eresult, batches, upserts,
          apc, ainput, alocal, atrace,
          spc, sinput, sdisk, slocal,
          cpc, loadCount, callCount>>

----------------------------------------------------------------------------
(* String primitives                                                        *)

NL == "\n"

\* Array.prototype.join
RECURSIVE join(_, _)
join(strs, sep) ==
    IF Len(strs) = 0 THEN <<>>
    ELSE IF Len(strs) = 1 THEN strs[1]
    ELSE strs[1] \o sep \o join(Tail(strs), sep)

\* position of the first occurrence of the character c in s, 0 when absent
RECURSIVE indexOf(_, _, _)
indexOf(s, c, from) ==
    IF from > Len(s) THEN 0
    ELSE IF s[from] = c THEN from
    ELSE indexOf(s, c, from + 1)

\* String.prototype.split on a one-character separator
RECURSIVE split(_, _)
split(s, c) ==
    LET k == indexOf(s, c, 1)
    IN  IF k = 0 THEN <<s>>
        ELSE <<SubSeq(s, 1, k - 1)>> \o split(SubSeq(s, k + 1, Len(s)), c)

\* String.prototype.includes
includes(s, sub) ==
    \/ Len(sub) = 0
    \/ \E k \in 0..(Len(s) - Len(sub)) :
          /\ s[k + 1] = sub[1]
          /\ SubSeq(s, k + 1, k + Len(sub)) = sub

Digit(d) == <<"0", "1", "2", "3", "4", "5", "6", "7", "8", "9">>[d + 1]

\* template-literal rendering of a non-negative integer
RECURSIVE numStr(_)
numStr(n) == IF n < 10 THEN <<Digit(n)>> ELSE numStr(n \div 10) \o <<Digit(n % 10)>>

\* template-literal rendering of a boolean
boolStr(b) == IF b THEN <<"t", "r", "u", "e">> ELSE <<"f", "a", "l", "s", "e">>

\* Array.prototype.flat over an array of arrays
RECURSIVE flat(_)
flat(ss) == IF Len(ss) = 0 THEN <<>> ELSE ss[1] \o flat(Tail(ss))

----------------------------------------------------------------------------
(* String literals of the templates                                         *)

S_sep       == <<":", ":">>
S_comma     == <<",", " ">>
S_plus      == <<"+">>
S_hash      == <<"#">>
S_nlnl      == <<NL, NL>>
S_nl        == <<NL>>
S_Function  == <<"F", "u", "n", "c", "t", "i", "o", "n", ":", " ">>
S_Params    == <<NL, "P", "a", "r", "a", "m", "s", ":", " ">>
S_Calls     == <<NL, "C", "a", "l", "l", "s", ":", " ">>
S_from      == <<"f", "r", "o", "m", " ">>
S_colon     == <<":", " ">>
S_Imports   == <<"I", "m", "p", "o", "r", "t", "s", ":", NL>>
S_Exports   == <<"E", "x", "p", "o", "r", "t", "s", ":", NL>>
S_default   == <<" ", "(", "d", "e", "f", "a", "u", "l", "t", ")">>
S_Class     == <<"C", "l", "a", "s", "s", ":", " ">>
S_Variables == <<"V", "a", "r", "i", "a", "b", "l", "e", "s", ":", " ">>
S_File      == <<"F", "i", "l", "e", ":", " ">>
S_FnCount   == <<NL, "F", "u", "n", "c", "t", "i", "o", "n", "s", ":", " ">>
S_ImpCount  == <<NL, "I", "m", "p", "o", "r", "t", "s", ":", " ">>
S_ExpCount  == <<NL, "E", "x", "p", "o", "r", "t", "s", ":", " ">>
W_imports   == <<"i", "m", "p", "o", "r", "t", "s">>
W_exports   == <<"e", "x", "p", "o", "r", "t", "s">>
W_variables == <<"v", "a", "r", "i", "a", "b", "l", "e", "s">>
W_summary   == <<"s", "u", "m", "m", "a", "r", "y">>

----------------------------------------------------------------------------
(* simpleChunker.ts                                                         *)

\* const DEFAULT_OPTIONS: Required<ChunkOptions>
DEFAULT_MAX_SIZE == 500
DEFAULT_OPTIONS == [maxSize |-> DEFAULT_MAX_SIZE, combine |-> TRUE]

\* variant: { ...options, ...DEFAULT_OPTIONS }, the defaults winning
spread_reversed(defaults, given) == defaults

\* { ...DEFAULT_OPTIONS, ...options }: options is a record over a subset of
\* the keys; the omitted argument is the record without keys
spread(defaults, given) ==
    [k \in DOMAIN defaults |-> IF k \in DOMAIN given THEN given[k] ELSE defaults[k]]

\* id: `${file}::${name}`
chunkId(file, name) == file \o S_sep \o name

\* text of a function chunk (chunk, the Functions loop)
functionText(fn) ==
    S_Function \o fn.name \o S_Params \o join(fn.params, S_comma)
               \o S_Calls \o join(fn.calls, S_comma)

functionChunk(file, fn) ==
    [id |-> chunkId(file, fn.name), text |-> functionText(fn),
     type |-> "function", file |-> file, name |-> fn.name]

importLine(imp) == S_from \o imp.source \o S_colon \o join(imp.imports, S_comma)

importChunk(file, imports) ==
    [id |-> chunkId(file, W_imports),
     text |-> S_Imports \o join([k \in 1..Len(imports) |-> importLine(imports[k])], S_nl),
     type |-> "import", file |-> file]

\* exp.isDefault is optional: the parser sets it on default exports only
isDefaultExport(exp) == "isDefault" \in DOMAIN exp /\ exp.isDefault

exportLine(exp) ==
    exp.type \o S_colon \o exp.name \o (IF isDefaultExport(exp) THEN S_default ELSE <<>>)

exportChunk(file, exports) ==
    [id |-> chunkId(file, W_exports),
     text |-> S_Exports \o join([k \in 1..Len(exports) |-> exportLine(exports[k])], S_nl),
     type |-> "export", file |-> file]

classChunk(file, className) ==
    [id |-> chunkId(file, className), text |-> S_Class \o className,
     type |-> "class", file |-> file, name |-> className]

\* variant: only the first variable listed
variableChunk_firstOnly(file, variables) ==
    [id |-> chunkId(file, W_variables),
     text |-> S_Variables \o variables[1],
     type |-> "variable", file |-> file]

variableChunk(file, variables) ==
    [id |-> chunkId(file, W_variables),
     text |-> S_Variables \o join(variables, S_comma),
     type |-> "variable", file |-> file]

summaryChunk(file, s) ==
    [id |-> chunkId(file, W_summary),
     text |-> S_File \o file \o S_FnCount \o numStr(Len(s.functions))
                  \o S_ImpCount \o numStr(Len(s.imports))
                  \o S_ExpCount \o numStr(Len(s.exports)),
     type |-> "summary", file |-> file]

\* chunk, the five category blocks: what is pushed before the fallback test
categoryChunks(analysis) ==
    LET file == analysis.file
        s    == analysis.ast_summary
    IN  [k \in 1..Len(s.functions) |-> functionChunk(file, s.functions[k])]
        \o (IF Len(s.imports) > 0 THEN <<importChunk(file, s.imports)>> ELSE <<>>)
        \o (IF Len(s.exports) > 0 THEN <<exportChunk(file, s.exports)>> ELSE <<>>)
        \o [k \in 1..Len(s.classes) |-> classChunk(file, s.classes[k])]
        \o (IF Len(s.variables) > 0 THEN <<variableChunk(file, s.variables)>> ELSE <<>>)

\* variant: the fallback decided by the three counts the summary text shows
buildChunks_countsOnly(analysis) ==
    LET s == analysis.ast_summary
    IN  IF Len(s.functions) = 0 /\ Len(s.imports) = 0 /\ Len(s.exports) = 0
        THEN <<summaryChunk(analysis.file, s)>>
        ELSE categoryChunks(analysis)

\* chunk, up to its return statement: the raw chunk array with the fallback
buildChunks(analysis) ==
    LET built == categoryChunks(analysis)
    IN  IF Len(built) = 0
        THEN <<summaryChunk(analysis.file, analysis.ast_summary)>>
        ELSE built

\* variant: the merge test with < in place of <=
fitsMerged_strict(current, next, maxSize) ==
    Len(current.text \o S_nlnl \o next.text) < maxSize

\* variant: the merge test without the length of the separator
fitsMerged_noSeparator(current, next, maxSize) ==
    Len(current.text) + Len(next.text) <= maxSize

\* the merge test of combineSmallChunks
fitsMerged(current, next, maxSize) ==
    Len(current.text \o S_nlnl \o next.text) <= maxSize

\* variant: the merged chunk given the type of the later chunk
mergeTwo_laterType(current, next) ==
    [id |-> current.id \o S_plus \o next.id,
     text |-> current.text \o S_nlnl \o next.text,
     type |-> next.type, file |-> current.file]

\* variant: the merged id built with the two ids swapped
mergeTwo_swappedId(current, next) ==
    [id |-> next.id \o S_plus \o current.id,
     text |-> current.text \o S_nlnl \o next.text,
     type |-> current.type, file |-> current.file]

\* the merged chunk of combineSmallChunks (no name field)
mergeTwo(current, next) ==
    [id |-> current.id \o S_plus \o next.id,
     text |-> current.text \o S_nlnl \o next.text,
     type |-> current.type, file |-> current.file]

\* the for loop of combineSmallChunks from index k on
RECURSIVE combineLoop(_, _, _, _, _)
\* variant: a chunk that is already a merge takes no further chunk
combineLoop_pairsOnly(cs, k, current, result, maxSize) ==
    IF k > Len(cs) THEN Append(result, current)
    ELSE IF fitsMerged(current, cs[k], maxSize) /\ current \in {cs[j] : j \in 1..Len(cs)}
         THEN combineLoop(cs, k + 1, mergeTwo(current, cs[k]), result, maxSize)
         ELSE combineLoop(cs, k + 1, cs[k], Append(result, current), maxSize)

combineLoop(cs, k, current, result, maxSize) ==
    IF k > Len(cs) THEN Append(result, current)
    ELSE IF fitsMerged(current, cs[k], maxSize)
         THEN combineLoop(cs, k + 1, mergeTwo(current, cs[k]), result, maxSize)
         ELSE combineLoop(cs, k + 1, cs[k], Append(result, current), maxSize)

\* variant: without the early return for arrays of at most one chunk, so
\* that chunks[0] of an empty array (undefined) is pushed
combineSmallChunks_noGuard(cs, maxSize) ==
    combineLoop(cs, 2, IF Len(cs) = 0 THEN "undefined" ELSE cs[1], <<>>, maxSize)

combineSmallChunks(cs, maxSize) ==
    IF Len(cs) <= 1 THEN cs ELSE combineLoop(cs, 2, cs[1], <<>>, maxSize)

chunk(analysis, opts) ==
    LET o == spread(DEFAULT_OPTIONS, opts)
        built == buildChunks(analysis)
    IN  IF o.combine THEN combineSmallChunks(built, o.maxSize) ELSE built

\* variant: the merge pass run over the flattened array instead of per file
flatMapStep_mergeAcross(acc, analysis, opts) ==
    LET o == spread(DEFAULT_OPTIONS, opts)
        all == acc \o buildChunks(analysis)
    IN  IF o.combine THEN combineSmallChunks(all, o.maxSize) ELSE all

\* variant: the chunks of the later file put in front
flatMapStep_prepend(acc, analysis, opts) == chunk(analysis, opts) \o acc

\* chunkAll: what flatMap has collected after visiting one more analysis
flatMapStep(acc, analysis, opts) == acc \o chunk(analysis, opts)

\* chunkAll as a function: the flatMap over all analyses
RECURSIVE chunkAllFrom(_, _, _, _)
chunkAllFrom(as, k, acc, opts) ==
    IF k > Len(as) THEN acc
    ELSE chunkAllFrom(as, k + 1, flatMapStep(acc, as[k], opts), opts)

chunkAll(as, opts) == chunkAllFrom(as, 1, <<>>, opts)

\* variant: the parts numbered from 0
partChunk_zeroBased(c, part, text) ==
    [c EXCEPT !.id = c.id \o S_hash \o numStr(part - 1), !.text = text]

\* the part emitted by splitLargeChunks
partChunk(c, part, text) ==
    [c EXCEPT !.id = c.id \o S_hash \o numStr(part), !.text = text]

\* variant: the emit test without the check that the part holds text
closesPart_anyPart(nextText, currentText, maxSize) ==
    Len(nextText) > maxSize

\* variant: the part closed only once it has itself outgrown maxSize
closesPart_late(nextText, currentText, maxSize) ==
    Len(currentText) > maxSize /\ Len(currentText) > 0

\* the emit test of the line loop of splitLargeChunks
closesPart(nextText, currentText, maxSize) ==
    Len(nextText) > maxSize /\ Len(currentText) > 0

\* the line loop of splitLargeChunks from line k on, and the final flush
RECURSIVE splitLoop(_, _, _, _, _, _, _)
splitLoop(c, lines, k, currentText, part, result, maxSize) ==
    IF k > Len(lines)
    THEN IF Len(currentText) > 0
         THEN Append(result, partChunk(c, part, currentText))
         ELSE result
    ELSE LET line == lines[k]
             nextText == currentText
                           \o (IF Len(currentText) > 0 THEN S_nl ELSE <<>>) \o line
         IN  IF closesPart(nextText, currentText, maxSize)
             THEN splitLoop(c, lines, k + 1, line, part + 1,
                            Append(result, partChunk(c, part, currentText)), maxSize)
             ELSE splitLoop(c, lines, k + 1, nextText, part, result, maxSize)

\* variant: without the pass-through of chunks that fit maxSize
splitOne_alwaysSplit(c, maxSize) ==
    splitLoop(c, split(c.text, NL), 1, <<>>, 1, <<>>, maxSize)

\* what splitLargeChunks pushes for one input chunk
splitOne(c, maxSize) ==
    IF Len(c.text) <= maxSize THEN <<c>>
    ELSE splitLoop(c, split(c.text, NL), 1, <<>>, 1, <<>>, maxSize)

splitLargeChunks(cs, maxSize) ==
    flat([k \in 1..Len(cs) |-> splitOne(cs[k], maxSize)])

----------------------------------------------------------------------------
(* astDataEmbedder.ts                                                       *)

E_dash_Params    == <<" ", "-", " ", "P", "a", "r", "a", "m", "s", ":", " ">>
E_dash_Calls     == <<" ", "-", " ", "C", "a", "l", "l", "s", ":", " ">>
E_dash_Async     == <<" ", "-", " ", "A", "s", "y", "n", "c", ":", " ">>
E_dash_Exported  == <<" ", "-", " ", "E", "x", "p", "o", "r", "t", "e", "d", ":", " ">>
E_Import         == <<"I", "m", "p", "o", "r", "t", ":", " ">>
E_from           == <<" ", "f", "r", "o", "m", " ">>
E_dash_Default   == <<" ", "-", " ", "D", "e", "f", "a", "u", "l", "t", ":", " ">>
E_dash_Namespace == <<" ", "-", " ", "N", "a", "m", "e", "s", "p", "a", "c", "e", ":", " ">>
E_Export         == <<"E", "x", "p", "o", "r", "t", ":", " ">>
E_dash_Type      == <<" ", "-", " ", "T", "y", "p", "e", ":", " ">>
E_Variable       == <<"V", "a", "r", "i", "a", "b", "l", "e", ":", " ">>
E_undefined      == <<"u", "n", "d", "e", "f", "i", "n", "e", "d">>
P_func           == <<"f", "u", "n", "c", "_">>
P_class          == <<"c", "l", "a", "s", "s", "_">>
P_import         == <<"i", "m", "p", "o", "r", "t", "_">>
P_export         == <<"e", "x", "p", "o", "r", "t", "_">>
P_var            == <<"v", "a", "r", "_">>

\* `${exp.isDefault}` of an optional boolean
optBoolStr(r, key) == IF key \in DOMAIN r THEN boolStr(r[key]) ELSE E_undefined

embedFunctionText(func) ==
    S_Function \o func.name \o E_dash_Params \o join(func.params, S_comma)
               \o E_dash_Calls \o join(func.calls, S_comma)
               \o E_dash_Async \o boolStr(func.isAsync)
               \o E_dash_Exported \o boolStr(func.isExported)

embedImportText(imp) ==
    E_Import \o join(imp.imports, S_comma) \o E_from \o imp.source
             \o E_dash_Default \o boolStr(imp.isDefault)
             \o E_dash_Namespace \o boolStr(imp.isNamespace)

embedExportText(exp) ==
    E_Export \o exp.name \o E_dash_Type \o exp.type
             \o E_dash_Default \o optBoolStr(exp, "isDefault")

\* the body of the analyses.forEach callback of convertAnalysesToChunks,
\* entered with the running counter id
convertOne(analysis, id) ==
    LET s  == analysis.ast_summary
        f  == analysis.file
        nf == Len(s.functions)
        nc == Len(s.classes)
        ni == Len(s.imports)
        ne == Len(s.exports)
    IN  [k \in 1..nf |->
            [id |-> P_func \o numStr(id + k - 1), text |-> embedFunctionText(s.functions[k]),
             file |-> f, type |-> "function", name |-> s.functions[k].name]]
        \o [k \in 1..nc |->
            [id |-> P_class \o numStr(id + nf + k - 1), text |-> S_Class \o s.classes[k],
             file |-> f, type |-> "class", name |-> s.classes[k]]]
        \o [k \in 1..ni |->
            [id |-> P_import \o numStr(id + nf + nc + k - 1),
             text |-> embedImportText(s.imports[k]),
             file |-> f, type |-> "import", name |-> s.imports[k].source]]
        \o [k \in 1..ne |->
            [id |-> P_export \o numStr(id + nf + nc + ni + k - 1),
             text |-> embedExportText(s.exports[k]),
             file |-> f, type |-> "export", name |-> s.exports[k].name]]
        \o [k \in 1..Len(s.variables) |->
            [id |-> P_var \o numStr(id + nf + nc + ni + ne + k - 1),
             text |-> E_Variable \o s.variables[k],
             file |-> f, type |-> "variable", name |-> s.variables[k]]]

RECURSIVE convertFrom(_, _, _)
convertFrom(as, k, id) ==
    IF k > Len(as) THEN <<>>
    ELSE LET cs == convertOne(as[k], id)
         IN  cs \o convertFrom(as, k + 1, id + Len(cs))

convertAnalysesToChunks(as) == convertFrom(as, 1, 1)

----------------------------------------------------------------------------
(* embeddingService.ts                                                      *)

batchSize == 50

\* variant: the element at index to included
slice_inclusive(s, from, to) ==
    SubSeq(s, from + 1, IF to + 1 < Len(s) THEN to + 1 ELSE Len(s))

\* Array.prototype.slice(from, to) with 0 <= from <= to
slice(s, from, to) == SubSeq(s, from + 1, IF to < Len(s) THEN to ELSE Len(s))

\* the result embedRepository starts from
newResult(cs) ==
    [totalChunks |-> Len(cs), embeddedChunks |-> 0, failedChunks |-> 0,
     errors |-> <<>>, chunkDetails |-> <<>>]

\* the messages pushed onto errors
embedError(id) == [error |-> "Failed to generate embedding for chunk", chunk |-> id]
upsertError == [error |-> "Failed to upsert to Pinecone", chunk |-> 0]

\* the for loop of processBatch from position k on; embeddings[k] tells
\* whether generateFreeEmbeddings returned a vector (TRUE) or null (FALSE)
RECURSIVE batchLoop(_, _, _, _, _)
batchLoop(cs, embeddings, k, results, vectors) ==
    IF k > Len(cs) THEN [results |-> results, vectors |-> vectors]
    ELSE IF embeddings[k]
         THEN batchLoop(cs, embeddings, k + 1,
                        [results EXCEPT
                            !.embeddedChunks = @ + 1,
                            !.chunkDetails = Append(@, [chunk |-> cs[k], embedding |-> TRUE])],
                        Append(vectors, cs[k]))
         ELSE batchLoop(cs, embeddings, k + 1,
                        [results EXCEPT
                            !.failedChunks = @ + 1,
                            !.errors = Append(@, embedError(cs[k])),
                            !.chunkDetails = Append(@, [chunk |-> cs[k],
                                                        error |-> embedError(cs[k])])],
                        vectors)

\* the vectors processBatch hands to index.upsert
vectorsOf(cs, embeddings) ==
    batchLoop(cs, embeddings, 1,
              [embeddedChunks |-> 0, failedChunks |-> 0, errors |-> <<>>,
               chunkDetails |-> <<>>], <<>>).vectors

\* processBatch; upsertOk tells whether index.upsert resolved
processBatch(cs, embeddings, upsertOk) ==
    LET r == batchLoop(cs, embeddings, 1,
                       [embeddedChunks |-> 0, failedChunks |-> 0, errors |-> <<>>,
                        chunkDetails |-> <<>>], <<>>)
    IN  IF Len(r.vectors) > 0 /\ ~upsertOk
        THEN [r.results EXCEPT !.errors = Append(@, upsertError)]
        ELSE r.results

\* the loop of embedRepository from index from on, as a function of what
\* generateFreeEmbeddings and index.upsert do
RECURSIVE embedLoop(_, _, _, _, _)
embedLoop(cs, embeddings, upsertOk, from, res) ==
    IF from >= Len(cs) THEN res
    ELSE LET batchResults == processBatch(slice(cs, from, from + batchSize),
                                          slice(embeddings, from, from + batchSize),
                                          upsertOk)
         IN  embedLoop(cs, embeddings, upsertOk, from + batchSize,
                       [res EXCEPT
                          !.embeddedChunks = @ + batchResults.embeddedChunks,
                          !.failedChunks = @ + batchResults.failedChunks,
                          !.errors = @ \o batchResults.errors,
                          !.chunkDetails = @ \o batchResults.chunkDetails])

\* the result of an embedRepository call that returns
embedRepository(cs, embeddings, upsertOk) ==
    embedLoop(cs, embeddings, upsertOk, 0, newResult(cs))

----------------------------------------------------------------------------
(* astAnalysisService.ts                                                    *)

\* the options analyzeRepository hands to chunkAll
ANALYZE_OPTIONS == [maxSize |-> DEFAULT_MAX_SIZE, combine |-> TRUE]

\* an optional local: undefined, or a value
undefined == [defined |-> FALSE, value |-> <<>>]
defined(v) == [defined |-> TRUE, value |-> v]

\* the locals at the start of analyzeRepository, the files fetched
newLocals ==
    [fi |-> 1, analyses |-> <<>>, processedFiles |-> 0, errors |-> <<>>,
     saved |-> undefined, chunks |-> undefined, embeddingResult |-> undefined]

\* the messages pushed onto errors
fileError(path) == [error |-> "Error analyzing", file |-> path]
chunkingError == [error |-> "Chunking failed", file |-> <<>>]
embeddingError == [error |-> "Embedding failed", file |-> <<>>]

\* variant: processedFiles counted before the file is parsed
analyzeFile_countFirst(l, file) ==
    IF file.throws
    THEN [l EXCEPT !.fi = @ + 1, !.errors = Append(@, fileError(file.path)),
                   !.processedFiles = @ + 1]
    ELSE [l EXCEPT !.fi = @ + 1,
                   !.analyses = Append(@, [file |-> file.path,
                                           ast_summary |-> file.summary]),
                   !.processedFiles = @ + 1]

\* one iteration of the loop over the files: progressCallback is called,
\* then the file is parsed and its analysis pushed; a throw inside the try
\* block is pushed onto errors. file.summary is what parseCode returns for
\* the content of the file (the empty summary when the parser fails, which
\* parseCode catches itself)
analyzeFile(l, file) ==
    IF file.throws
    THEN [l EXCEPT !.fi = @ + 1, !.errors = Append(@, fileError(file.path))]
    ELSE [l EXCEPT !.fi = @ + 1,
                   !.analyses = Append(@, [file |-> file.path,
                                           ast_summary |-> file.summary]),
                   !.processedFiles = @ + 1]

\* the AnalysisResult built at the end
analysisResult(inp, l) ==
    [totalFiles |-> Len(inp.files), processedFiles |-> l.processedFiles,
     analyses |-> l.analyses, errors |-> l.errors,
     chunks |-> l.chunks, embeddingResult |-> l.embeddingResult]

----------------------------------------------------------------------------
(* LocalStorage (in simpleChunker.ts)                                       *)

\* getRepoStorageDir with createTimestampFolders: the directory named by
\* new Date().toISOString(), one name per millisecond of the clock
getRepoStorageDir(now) == now

\* a directory that has just been created
newDir(now) == [mtime |-> now, subdirs |-> {}, files |-> {}]

\* fs.ensureDir(path.join(repoDir, fileDir)): missing directories are
\* created; creating a direct child touches the mtime of repoDir
ensureDir(dirs, repoDir, fileDir, now) ==
    LET base == IF repoDir \in DOMAIN dirs THEN dirs
                ELSE [t \in DOMAIN dirs \cup {repoDir} |->
                        IF t = repoDir THEN newDir(now) ELSE dirs[t]]
    IN  IF fileDir = "." \/ fileDir \in base[repoDir].subdirs THEN base
        ELSE [base EXCEPT ![repoDir].subdirs = @ \cup {fileDir},
                          ![repoDir].mtime = now]

\* fs.writeJson(path.join(repoDir, fileDir, name), content): a file of that
\* path is replaced; a new file directly in repoDir touches its mtime
writeJson(dirs, repoDir, fileDir, name, content, now) ==
    LET old == {f \in dirs[repoDir].files : f.dir = fileDir /\ f.name = name}
    IN  [dirs EXCEPT
            ![repoDir].files = (@ \ old) \cup
                {[dir |-> fileDir, name |-> name, content |-> content]},
            ![repoDir].mtime = IF fileDir = "." /\ old = {} THEN now ELSE @]

\* the name saveFileAnalysis gives the file of an analysis:
\* path.basename(file, path.extname(file)) + "_analysis.json"
analysisFileName(analysis) == <<analysis.file.base, "_analysis.json">>

\* saveFileAnalysis(repoUrl, analysis) at the time now
saveFileAnalysis(dirs, analysis, now) ==
    LET repoDir == getRepoStorageDir(now)
    IN  writeJson(ensureDir(dirs, repoDir, analysis.file.dir, now),
                  repoDir, analysis.file.dir, analysisFileName(analysis), analysis, now)

\* the files scanForAnalyses loads from a directory
scanForAnalyses(dir) == {f \in dir.files : f.name[Len(f.name)] = "_analysis.json"}

\* the directories findLatestAnalysisFolder may return: those of the
\* greatest mtime (readdir fixes no order among equal mtimes)
latestFolders(dirs) ==
    {t \in DOMAIN dirs : \A u \in DOMAIN dirs : dirs[u].mtime <= dirs[t].mtime}

----------------------------------------------------------------------------
(* Inputs                                                                   *)

MaxFiles == 2      \* files of one repository run
MaxFns == 2        \* functions of one file
MaxGrouped == 2    \* imports, exports and variables of one file
MaxClasses == 1    \* classes of one file
MaxEmbedChunks == 101  \* chunks handed to embedRepository
MaxRepoFiles == 3  \* files the fetcher returns for a repository
MaxSaved == 2      \* analyses handed to saveMultipleFileAnalyses
MaxCallers == 3    \* calls of one EmbeddingService that may be in flight together
MaxCalls == 4      \* calls of embedRepository and searchSimilar in one run

N_foo == <<"f", "o", "o">>
N_bar == <<"b", "a", "r">>
N_run == <<"r", "u", "n">>
N_Box == <<"B", "o", "x">>
N_cfg == <<"c", "f", "g">>
N_lib == <<"l", "i", "b">>
T_function == <<"f", "u", "n", "c", "t", "i", "o", "n">>
T_variable == <<"v", "a", "r", "i", "a", "b", "l", "e">>

\* file paths: "+p" stands for a route file such as src/routes/+page.ts
FileList == <<<<"a">>, <<"+", "p">>, <<"b">>, <<"c">>>>

\* foo(a, b) calling bar, exported; async run(); a second foo in an inner scope
FnPool ==
    << [name |-> N_foo, params |-> <<<<"a">>, <<"b">>>>, calls |-> <<N_bar>>,
        isAsync |-> FALSE, isExported |-> TRUE],
       [name |-> N_run, params |-> <<>>, calls |-> <<>>,
        isAsync |-> TRUE, isExported |-> FALSE],
       [name |-> N_foo, params |-> <<>>, calls |-> <<N_run, N_bar>>,
        isAsync |-> FALSE, isExported |-> FALSE] >>

ImportPool ==
    << [source |-> N_lib, imports |-> <<<<"x">>, <<"y">>>>,
        isDefault |-> FALSE, isNamespace |-> FALSE],
       [source |-> <<".", "/", "n">>, imports |-> <<<<"z">>>>,
        isDefault |-> TRUE, isNamespace |-> FALSE] >>

ExportPool ==
    << [name |-> N_foo, type |-> T_function, isDefault |-> TRUE],
       [name |-> N_cfg, type |-> T_variable] >>

\* a class named like a function of FnPool, and a variable named imports
ClassPool == <<N_Box, N_foo>>
VarPool == <<N_cfg, W_imports>>

\* the arrays of length <= max that run through pool cyclically from any start
Windows(pool, max) ==
    {<<>>} \cup
    { [k \in 1..n |-> pool[((s + k - 2) % Len(pool)) + 1]] :
        s \in 1..Len(pool), n \in 1..max }

\* the arrays of length <= max that run through pool cyclically from its head
Prefixes(pool, max) ==
    { [k \in 1..n |-> pool[((k - 1) % Len(pool)) + 1]] : n \in 0..max }

Summaries ==
    [functions : Windows(FnPool, MaxFns),
     imports   : Windows(ImportPool, MaxGrouped),
     exports   : Prefixes(ExportPool, MaxGrouped),
     classes   : Windows(ClassPool, MaxClasses),
     variables : Prefixes(VarPool, MaxGrouped)]

EmptySummary ==
    [functions |-> <<>>, imports |-> <<>>, exports |-> <<>>,
     classes |-> <<>>, variables |-> <<>>]

\* the summaries of the files of a run over several files
RepoSummaries ==
    { EmptySummary,
      [EmptySummary EXCEPT !.functions = <<FnPool[1]>>, !.classes = <<N_Box>>],
      [EmptySummary EXCEPT !.functions = <<FnPool[2]>>, !.imports = <<ImportPool[1]>>,
                           !.variables = <<N_cfg>>],
      [EmptySummary EXCEPT !.exports = <<ExportPool[1]>>, !.classes = <<N_foo>>,
                           !.variables = <<W_imports, N_cfg>>] }

Analyses ==
    { <<[file |-> FileList[1], ast_summary |-> s]>> : s \in Summaries }
    \cup
    UNION { { [k \in 1..n |-> [file |-> FileList[k], ast_summary |-> ss[k]]] :
                ss \in [1..n -> RepoSummaries] } : n \in (0..MaxFiles) \ {1} }
    \cup
    { [k \in 1..(MaxFiles + 1) |-> [file |-> FileList[k], ast_summary |-> s]] :
        s \in RepoSummaries }

\* ChunkOptions arguments: omitted, partial and complete
OptionsPool ==
    { <<>>,
      [combine |-> FALSE],
      [maxSize |-> 30],
      [maxSize |-> 60, combine |-> TRUE] }

\* maxSize arguments of splitLargeChunks
SplitSizes == {12, 30}

\* the chunk lists handed to embedRepository
EmbedInputs == { [k \in 1..n |-> k] : n \in 0..MaxEmbedChunks }

\* what generateFreeEmbeddings may return for n chunks: every embedding
\* present, the first one null, every one null
Embeddings(n) ==
    { [k \in 1..n |-> TRUE], [k \in 1..n |-> k # 1], [k \in 1..n |-> FALSE] }

\* what happens to a fetched file: it is parsed to a summary, the parser
\* fails on it (parseCode returns the empty summary), or the try block of
\* the loop throws
FileOutcomes ==
    { [summary |-> s, throws |-> FALSE] :
        s \in {EmptySummary,
                [EmptySummary EXCEPT !.functions = <<FnPool[1]>>, !.classes = <<N_Box>>],
                [EmptySummary EXCEPT !.variables = <<N_cfg>>]} }
    \cup { [summary |-> EmptySummary, throws |-> TRUE] }

\* the arguments of analyzeRepository with the files fetched for repoUrl
AnalyzeInputs ==
    UNION { { [files |-> [k \in 1..n |-> [path |-> FileList[k],
                                           summary |-> fo[k].summary,
                                           throws |-> fo[k].throws]],
               enableChunking |-> c, enableEmbedding |-> e] :
                fo \in [1..n -> FileOutcomes], c \in BOOLEAN, e \in BOOLEAN } :
            n \in 0..MaxRepoFiles }

\* file paths of saved analyses: src/a.ts, src/a.js, b.ts, lib/c.ts
SavedPaths ==
    << [dir |-> "src", base |-> "a", ext |-> ".ts"],
       [dir |-> "src", base |-> "a", ext |-> ".js"],
       [dir |-> ".",   base |-> "b", ext |-> ".ts"],
       [dir |-> "lib", base |-> "c", ext |-> ".ts"] >>

\* the analyses handed to saveMultipleFileAnalyses: files of distinct paths
SaveInputs ==
    UNION { { [k \in 1..n |-> [file |-> SavedPaths[p[k]], ast_summary |-> EmptySummary]] :
                p \in {q \in [1..n -> 1..Len(SavedPaths)] :
                          \A a, b \in 1..n : a # b => q[a] # q[b]} } :
            n \in 0..MaxSaved }

\* by how many milliseconds the clock advances between two readings
Ticks == {0, 1}

----------------------------------------------------------------------------
(* The callers                                                              *)

\* no call of the chunkers has been made
ChunkerIdle ==
    /\ pc = "start"
    /\ i = 1
    /\ out = <<>>
    /\ chunks = <<>>
    /\ splitMax = 0
    /\ parts = <<>>
    /\ embedChunks = <<>>

\* no call of analyzeRepository has been made
AnalyzerIdle ==
    /\ apc = "idle"
    /\ alocal = newLocals
    /\ atrace = [progress |-> <<>>, stages |-> <<>>]

NoAnalyzeInput == [files |-> <<>>, enableChunking |-> TRUE, enableEmbedding |-> TRUE]

\* the calls of one EmbeddingService that may be in flight together
Callers == 1..MaxCallers

\* the methods that await ensureInitialized first
InitializingMethods == {"embedRepository", "searchSimilar"}

\* no call of the EmbeddingService is in flight
LoaderIdle ==
    /\ cpc = [c \in Callers |-> [at |-> "idle", method |-> "none"]]
    /\ loadCount = 0
    /\ callCount = 0

\* no call of LocalStorage has been made
StorageIdle ==
    /\ spc = "idle"
    /\ slocal = [k |-> 1, repoDir |-> 0, savedFiles |-> <<>>,
                 loaded |-> [ok |-> FALSE, folder |-> 0, analyses |-> {}]]

EmptyDisk == [clock |-> 1, dirs |-> <<>>]

\* the disk after an earlier save at time 0 of an analysis of b.ts
EarlierDisk ==
    [clock |-> 1,
     dirs |-> [t \in {0} |->
                 [mtime |-> 0, subdirs |-> {},
                  files |-> {[dir |-> ".", name |-> <<"b", "_analysis.json">>,
                              content |-> [file |-> SavedPaths[3],
                                           ast_summary |-> EmptySummary]]}]]]

\* a new EmbeddingService, no call made
EmbedderIdle ==
    /\ epc = "idle"
    /\ isInitialized = FALSE
    /\ ei = 0
    /\ eresult = newResult(<<>>)
    /\ batches = <<>>
    /\ upserts = <<>>

Init ==
    /\ analyses \in Analyses
    /\ options \in OptionsPool
    /\ ChunkerIdle
    /\ echunks = <<>>
    /\ EmbedderIdle
    /\ ainput = NoAnalyzeInput
    /\ AnalyzerIdle
    /\ sinput = <<>>
    /\ sdisk = EmptyDisk
    /\ StorageIdle
    /\ LoaderIdle

\* chunkAll(analyses, options) is entered
ChunkAllCall ==
    /\ pc = "start"
    /\ pc' = "chunkAll"
    /\ UNCHANGED <<analyses, options, i, out, chunks, splitMax, parts, embedChunks>>
    /\ UNCHANGED embedderVars
    /\ UNCHANGED analyzerVars
    /\ UNCHANGED storageVars
    /\ UNCHANGED loaderVars

\* the flatMap callback: analysis => chunk(analysis, options)
Chunk ==
    /\ pc = "chunkAll"
    /\ i <= Len(analyses)
    /\ out' = chunk(analyses[i], options)
    /\ chunks' = flatMapStep(chunks, analyses[i], options)
    /\ i' = i + 1
    /\ UNCHANGED <<analyses, options, pc, splitMax, parts, embedChunks>>
    /\ UNCHANGED embedderVars
    /\ UNCHANGED analyzerVars
    /\ UNCHANGED storageVars
    /\ UNCHANGED loaderVars

\* chunkAll returns the flattened array
ChunkAllReturn ==
    /\ pc = "chunkAll"
    /\ i > Len(analyses)
    /\ pc' = "chunked"
    /\ UNCHANGED <<analyses, options, i, out, chunks, splitMax, parts, embedChunks>>
    /\ UNCHANGED embedderVars
    /\ UNCHANGED analyzerVars
    /\ UNCHANGED storageVars
    /\ UNCHANGED loaderVars

\* variant: the split done in place, the input array holding the parts
SplitLargeChunks_inPlace ==
    /\ pc = "chunked"
    /\ \E m \in SplitSizes :
        /\ splitMax' = m
        /\ parts' = splitLargeChunks(chunks, m)
    /\ chunks' = parts'
    /\ pc' = "split"
    /\ UNCHANGED <<analyses, options, i, out, embedChunks>>
    /\ UNCHANGED embedderVars
    /\ UNCHANGED analyzerVars
    /\ UNCHANGED storageVars
    /\ UNCHANGED loaderVars

\* splitLargeChunks(chunks, maxSize) applied to the result of chunkAll
SplitLargeChunks ==
    /\ pc = "chunked"
    /\ \E m \in SplitSizes :
        /\ splitMax' = m
        /\ parts' = splitLargeChunks(chunks, m)
    /\ pc' = "split"
    /\ UNCHANGED <<analyses, options, i, out, chunks, embedChunks>>
    /\ UNCHANGED embedderVars
    /\ UNCHANGED analyzerVars
    /\ UNCHANGED storageVars
    /\ UNCHANGED loaderVars

\* ASTDataEmbedder.convertAnalysesToChunks(analyses)
ConvertAnalysesToChunks ==
    /\ pc = "start"
    /\ embedChunks' = convertAnalysesToChunks(analyses)
    /\ pc' = "converted"
    /\ UNCHANGED <<analyses, options, i, out, chunks, splitMax, parts>>
    /\ UNCHANGED embedderVars
    /\ UNCHANGED analyzerVars
    /\ UNCHANGED storageVars
    /\ UNCHANGED loaderVars

Next ==
    \/ ChunkAllCall
    \/ Chunk
    \/ ChunkAllReturn
    \/ SplitLargeChunks
    \/ ConvertAnalysesToChunks

Spec == Init /\ [][Next]_vars

\* embedRepository(chunks, repository) is entered: ensureInitialized loads
\* the model unless it is loaded, and throws when the load fails
EmbedRepositoryCall ==
    /\ epc = "idle"
    /\ \E loaded \in BOOLEAN :
        IF isInitialized \/ loaded
        THEN /\ isInitialized' = TRUE
             /\ eresult' = newResult(echunks)
             /\ ei' = 0
             /\ epc' = "loop"
        ELSE /\ epc' = "thrown"
             /\ UNCHANGED <<isInitialized, eresult, ei>>
    /\ UNCHANGED <<echunks, batches, upserts>>
    /\ UNCHANGED chunkerVars
    /\ UNCHANGED analyzerVars
    /\ UNCHANGED storageVars
    /\ UNCHANGED loaderVars

\* one iteration of the loop of embedRepository: the next batch is sliced
\* off, processBatch embeds it and upserts its vectors, the counts and
\* lists of the batch are added to the result
ProcessBatch ==
    /\ epc = "loop"
    /\ ei < Len(echunks)
    /\ LET batch == slice(echunks, ei, ei + batchSize)
       IN  \E embeddings \in Embeddings(Len(batch)), upsertOk \in BOOLEAN :
            LET batchResults == processBatch(batch, embeddings, upsertOk)
                vectors == vectorsOf(batch, embeddings)
            IN  /\ eresult' =
                     [eresult EXCEPT
                        !.embeddedChunks = @ + batchResults.embeddedChunks,
                        !.failedChunks = @ + batchResults.failedChunks,
                        !.errors = @ \o batchResults.errors,
                        !.chunkDetails = @ \o batchResults.chunkDetails]
                /\ batches' = Append(batches, batch)
                /\ upserts' = IF Len(vectors) > 0
                              THEN Append(upserts, [vectors |-> vectors, ok |-> upsertOk])
                              ELSE upserts
    /\ ei' = ei + batchSize
    /\ UNCHANGED <<echunks, epc, isInitialized>>
    /\ UNCHANGED chunkerVars
    /\ UNCHANGED analyzerVars
    /\ UNCHANGED storageVars
    /\ UNCHANGED loaderVars

\* the loop is over: embedRepository returns its result
EmbedRepositoryReturn ==
    /\ epc = "loop"
    /\ ei >= Len(echunks)
    /\ epc' = "done"
    /\ UNCHANGED <<echunks, isInitialized, ei, eresult, batches, upserts>>
    /\ UNCHANGED chunkerVars
    /\ UNCHANGED analyzerVars
    /\ UNCHANGED storageVars
    /\ UNCHANGED loaderVars

InitEmbed ==
    /\ analyses = <<>>
    /\ options = <<>>
    /\ ChunkerIdle
    /\ echunks \in EmbedInputs
    /\ EmbedderIdle
    /\ ainput = NoAnalyzeInput
    /\ AnalyzerIdle
    /\ sinput = <<>>
    /\ sdisk = EmptyDisk
    /\ StorageIdle
    /\ LoaderIdle

NextEmbed ==
    \/ EmbedRepositoryCall
    \/ ProcessBatch
    \/ EmbedRepositoryReturn

SpecEmbed == InitEmbed /\ [][NextEmbed]_vars

\* analyzeRepository is entered and fetches the files; a failure of the
\* fetcher is rethrown by the outer catch
AnalyzeRepositoryCall ==
    /\ apc = "idle"
    /\ \E fetched \in BOOLEAN :
        apc' = IF fetched THEN "files" ELSE "thrown"
    /\ alocal' = newLocals
    /\ UNCHANGED <<ainput, atrace>>
    /\ UNCHANGED <<chunkerVars, embedderVars>>
    /\ UNCHANGED storageVars
    /\ UNCHANGED loaderVars

\* one iteration of the loop over the files
AnalyzeFile ==
    /\ apc = "files"
    /\ alocal.fi <= Len(ainput.files)
    /\ atrace' = [atrace EXCEPT !.progress = Append(@, alocal.processedFiles)]
    /\ alocal' = analyzeFile(alocal, ainput.files[alocal.fi])
    /\ UNCHANGED <<apc, ainput>>
    /\ UNCHANGED <<chunkerVars, embedderVars>>
    /\ UNCHANGED storageVars
    /\ UNCHANGED loaderVars

\* saveMultipleFileAnalyses(repoUrl, analyses) after the loop; a failure
\* is rethrown by the outer catch
SaveAnalyses ==
    /\ apc = "files"
    /\ alocal.fi > Len(ainput.files)
    /\ atrace' = [atrace EXCEPT !.stages = Append(@, "save")]
    /\ \E ok \in BOOLEAN :
        IF ok
        THEN /\ alocal' = [alocal EXCEPT !.saved = defined(alocal.analyses)]
             /\ apc' = "chunking"
        ELSE /\ apc' = "thrown"
             /\ UNCHANGED alocal
    /\ UNCHANGED ainput
    /\ UNCHANGED <<chunkerVars, embedderVars>>
    /\ UNCHANGED storageVars
    /\ UNCHANGED loaderVars

\* the chunking block: skipped unless enableChunking; chunkAll returns the
\* chunks, or a throw inside the try block is pushed onto errors
GenerateChunks ==
    /\ apc = "chunking"
    /\ IF ainput.enableChunking
       THEN /\ atrace' = [atrace EXCEPT !.stages = Append(@, "chunk")]
            /\ \E thrown \in BOOLEAN :
                alocal' = IF thrown
                          THEN [alocal EXCEPT !.errors = Append(@, chunkingError)]
                          ELSE [alocal EXCEPT
                                  !.chunks = defined(chunkAll(alocal.analyses,
                                                              ANALYZE_OPTIONS))]
       ELSE UNCHANGED <<alocal, atrace>>
    /\ apc' = "embedding"
    /\ UNCHANGED ainput
    /\ UNCHANGED <<chunkerVars, embedderVars>>
    /\ UNCHANGED storageVars
    /\ UNCHANGED loaderVars

\* variant: the embedding block entered whenever enableEmbedding is set
GenerateEmbeddings_unguarded ==
    /\ apc = "embedding"
    /\ IF ainput.enableEmbedding
       THEN /\ atrace' = [atrace EXCEPT !.stages = Append(@, "embed")]
            /\ \/ alocal' = [alocal EXCEPT !.errors = Append(@, embeddingError)]
               \/ \E embeddings \in Embeddings(Len(alocal.chunks.value)),
                     upsertOk \in BOOLEAN :
                    alocal' = [alocal EXCEPT
                                 !.embeddingResult =
                                    defined(embedRepository(alocal.chunks.value,
                                                            embeddings, upsertOk))]
       ELSE UNCHANGED <<alocal, atrace>>
    /\ apc' = "returning"
    /\ UNCHANGED ainput
    /\ UNCHANGED <<chunkerVars, embedderVars>>
    /\ UNCHANGED storageVars
    /\ UNCHANGED loaderVars

\* the embedding block: entered when enableEmbedding and chunks is set;
\* embedRepository returns a result, or its throw is pushed onto errors
GenerateEmbeddings ==
    /\ apc = "embedding"
    /\ IF ainput.enableEmbedding /\ alocal.chunks.defined
       THEN /\ atrace' = [atrace EXCEPT !.stages = Append(@, "embed")]
            /\ \/ alocal' = [alocal EXCEPT !.errors = Append(@, embeddingError)]
               \/ \E embeddings \in Embeddings(Len(alocal.chunks.value)),
                     upsertOk \in BOOLEAN :
                    alocal' = [alocal EXCEPT
                                 !.embeddingResult =
                                    defined(embedRepository(alocal.chunks.value,
                                                            embeddings, upsertOk))]
       ELSE UNCHANGED <<alocal, atrace>>
    /\ apc' = "returning"
    /\ UNCHANGED ainput
    /\ UNCHANGED <<chunkerVars, embedderVars>>
    /\ UNCHANGED storageVars
    /\ UNCHANGED loaderVars

\* the result is built and returned
AnalyzeRepositoryReturn ==
    /\ apc = "returning"
    /\ apc' = "returned"
    /\ UNCHANGED <<ainput, alocal, atrace>>
    /\ UNCHANGED <<chunkerVars, embedderVars>>
    /\ UNCHANGED storageVars
    /\ UNCHANGED loaderVars

InitAnalyze ==
    /\ analyses = <<>>
    /\ options = <<>>
    /\ ChunkerIdle
    /\ echunks = <<>>
    /\ EmbedderIdle
    /\ ainput \in AnalyzeInputs
    /\ AnalyzerIdle
    /\ sinput = <<>>
    /\ sdisk = EmptyDisk
    /\ StorageIdle
    /\ LoaderIdle

NextAnalyze ==
    \/ AnalyzeRepositoryCall
    \/ AnalyzeFile
    \/ SaveAnalyses
    \/ GenerateChunks
    \/ GenerateEmbeddings
    \/ AnalyzeRepositoryReturn

SpecAnalyze == InitAnalyze /\ [][NextAnalyze]_vars

\* saveMultipleFileAnalyses is entered: every stored repository is removed,
\* repoDir is computed from the clock and created
SaveMultipleCall ==
    /\ spc = "idle"
    /\ \E d \in Ticks :
        LET now == sdisk.clock + d
            repoDir == getRepoStorageDir(now)
        IN  /\ sdisk' = [clock |-> now, dirs |-> ensureDir(<<>>, repoDir, ".", now)]
            /\ slocal' = [slocal EXCEPT !.k = 1, !.repoDir = repoDir, !.savedFiles = <<>>]
    /\ spc' = "saving"
    /\ UNCHANGED sinput
    /\ UNCHANGED <<chunkerVars, embedderVars, analyzerVars>>
    /\ UNCHANGED loaderVars

\* one iteration of the loop: saveFileAnalysis(repoUrl, analysis), which
\* computes its directory from the clock again
SaveFileAnalysis ==
    /\ spc = "saving"
    /\ slocal.k <= Len(sinput)
    /\ \E d \in Ticks :
        LET now == sdisk.clock + d
        IN  /\ sdisk' = [clock |-> now,
                         dirs |-> saveFileAnalysis(sdisk.dirs, sinput[slocal.k], now)]
            /\ slocal' = [slocal EXCEPT
                            !.k = @ + 1,
                            !.savedFiles = Append(@, [folder |-> getRepoStorageDir(now),
                                                      dir |-> sinput[slocal.k].file.dir,
                                                      name |-> analysisFileName(sinput[slocal.k])])]
    /\ UNCHANGED <<spc, sinput>>
    /\ UNCHANGED <<chunkerVars, embedderVars, analyzerVars>>
    /\ UNCHANGED loaderVars

\* after the loop summary.json and index.json are written into repoDir and
\* saveMultipleFileAnalyses returns
WriteSummaryAndIndex ==
    /\ spc = "saving"
    /\ slocal.k > Len(sinput)
    /\ \E d \in Ticks :
        LET now == sdisk.clock + d
            withSummary == writeJson(sdisk.dirs, slocal.repoDir, ".", <<"summary.json">>,
                                     Len(sinput), now)
        IN  sdisk' = [clock |-> now,
                      dirs |-> writeJson(withSummary, slocal.repoDir, ".", <<"index.json">>,
                                         slocal.savedFiles, now)]
    /\ spc' = "saved"
    /\ UNCHANGED <<sinput, slocal>>
    /\ UNCHANGED <<chunkerVars, embedderVars, analyzerVars>>
    /\ UNCHANGED loaderVars

\* loadRepoAnalyses(repoUrl): the latest folder is scanned; it throws when
\* the folder holds no analysis file
LoadRepoAnalyses ==
    /\ spc = "saved"
    /\ \E latestFolder \in latestFolders(sdisk.dirs) :
        LET found == scanForAnalyses(sdisk.dirs[latestFolder])
        IN  slocal' = [slocal EXCEPT
                         !.loaded = [ok |-> found # {}, folder |-> latestFolder,
                                     analyses |-> {f.content : f \in found}]]
    /\ spc' = "loaded"
    /\ UNCHANGED <<sinput, sdisk>>
    /\ UNCHANGED <<chunkerVars, embedderVars, analyzerVars>>
    /\ UNCHANGED loaderVars

InitStorage ==
    /\ analyses = <<>>
    /\ options = <<>>
    /\ ChunkerIdle
    /\ echunks = <<>>
    /\ EmbedderIdle
    /\ ainput = NoAnalyzeInput
    /\ AnalyzerIdle
    /\ sinput \in SaveInputs
    /\ sdisk \in {EmptyDisk, EarlierDisk}
    /\ StorageIdle
    /\ LoaderIdle

NextStorage ==
    \/ SaveMultipleCall
    \/ SaveFileAnalysis
    \/ WriteSummaryAndIndex
    \/ LoadRepoAnalyses

SpecStorage == InitStorage /\ [][NextStorage]_vars

\* what a call leaves of the embedder's state other than isInitialized
loaderFrame == UNCHANGED <<echunks, epc, ei, eresult, batches, upserts>>

\* embedRepository or searchSimilar is called and enters ensureInitialized:
\* it returns at once when isInitialized, else it awaits the import
EnsureInitializedEnter(c) ==
    /\ cpc[c].at = "idle"
    /\ callCount < MaxCalls
    /\ \E method \in InitializingMethods :
        cpc' = [cpc EXCEPT ![c] = [at |-> IF isInitialized THEN "ready" ELSE "importing",
                                   method |-> method]]
    /\ callCount' = callCount + 1
    /\ UNCHANGED <<isInitialized, loadCount>>
    /\ loaderFrame
    /\ UNCHANGED <<chunkerVars, analyzerVars, storageVars>>

\* the import of @xenova/transformers resolves: pipeline(...) is called and
\* awaited, or the import rejects and the error is rethrown
ImportSettles(c) ==
    /\ cpc[c].at = "importing"
    /\ \E imported \in BOOLEAN :
        cpc' = [cpc EXCEPT ![c].at = IF imported THEN "loading" ELSE "failed"]
    /\ UNCHANGED <<isInitialized, loadCount, callCount>>
    /\ loaderFrame
    /\ UNCHANGED <<chunkerVars, analyzerVars, storageVars>>

\* pipeline(...) resolves: the embedder is stored and isInitialized is set
PipelineResolves(c) ==
    /\ cpc[c].at = "loading"
    /\ cpc' = [cpc EXCEPT ![c].at = "ready"]
    /\ isInitialized' = TRUE
    /\ loadCount' = loadCount + 1
    /\ UNCHANGED callCount
    /\ loaderFrame
    /\ UNCHANGED <<chunkerVars, analyzerVars, storageVars>>

\* pipeline(...) rejects: the catch logs and rethrows, isInitialized is not set
PipelineRejects(c) ==
    /\ cpc[c].at = "loading"
    /\ cpc' = [cpc EXCEPT ![c].at = "failed"]
    /\ UNCHANGED <<isInitialized, loadCount, callCount>>
    /\ loaderFrame
    /\ UNCHANGED <<chunkerVars, analyzerVars, storageVars>>

\* the call that awaited ensureInitialized comes to its end
CallSettles(c) ==
    /\ cpc[c].at \in {"ready", "failed"}
    /\ cpc' = [cpc EXCEPT ![c] = [at |-> "idle", method |-> "none"]]
    /\ UNCHANGED <<isInitialized, loadCount, callCount>>
    /\ loaderFrame
    /\ UNCHANGED <<chunkerVars, analyzerVars, storageVars>>

InitLoader ==
    /\ analyses = <<>>
    /\ options = <<>>
    /\ ChunkerIdle
    /\ echunks = <<>>
    /\ EmbedderIdle
    /\ ainput = NoAnalyzeInput
    /\ AnalyzerIdle
    /\ sinput = <<>>
    /\ sdisk = EmptyDisk
    /\ StorageIdle
    /\ LoaderIdle

NextLoader ==
    \E c \in Callers :
        \/ EnsureInitializedEnter(c)
        \/ ImportSettles(c)
        \/ PipelineResolves(c)
        \/ PipelineRejects(c)
        \/ CallSettles(c)

SpecLoader == InitLoader /\ [][NextLoader]_vars

----------------------------------------------------------------------------
(* Vocabulary of the properties                                             *)

\* the options chunk works with
effective == spread(DEFAULT_OPTIONS, options)

\* a call of chunk has returned: out = chunk(chunkInput, options)
chunkReturned == i > 1
chunkInput == analyses[i - 1]

Range(s) == {s[k] : k \in 1..Len(s)}

ids(cs) == [k \in 1..Len(cs) |-> cs[k].id]
texts(cs) == [k \in 1..Len(cs) |-> cs[k].text]

allEmpty(s) ==
    /\ Len(s.functions) = 0
    /\ Len(s.imports) = 0
    /\ Len(s.exports) = 0
    /\ Len(s.classes) = 0
    /\ Len(s.variables) = 0

\* the number of chunks of cs with the given file and type
countOf(cs, file, type) ==
    Cardinality({k \in 1..Len(cs) : cs[k].file = file /\ cs[k].type = type})

\* the chunks of cs that carry the given file, in order
RECURSIVE ofFile(_, _)
ofFile(cs, file) ==
    IF Len(cs) = 0 THEN <<>>
    ELSE (IF cs[1].file = file THEN <<cs[1]>> ELSE <<>>) \o ofFile(Tail(cs), file)

\* every name the summary of an analysis lists
namesOf(s) ==
    {s.functions[k].name : k \in 1..Len(s.functions)}
    \cup {s.imports[k].source : k \in 1..Len(s.imports)}
    \cup {s.exports[k].name : k \in 1..Len(s.exports)}
    \cup Range(s.classes)
    \cup Range(s.variables)

\* every name of the analysis occurs in the text of a chunk of its file
covered(analysis, cs) ==
    \A n \in namesOf(analysis.ast_summary) :
        \E k \in 1..Len(cs) : cs[k].file = analysis.file /\ includes(cs[k].text, n)

\* merged is cut into consecutive runs of original, each joined with sep
RECURSIVE joinsRuns(_, _, _)
joinsRuns(merged, original, sep) ==
    IF Len(merged) = 0 THEN Len(original) = 0
    ELSE \E n \in 1..Len(original) :
            /\ merged[1] = join(SubSeq(original, 1, n), sep)
            /\ joinsRuns(Tail(merged), SubSeq(original, n + 1, Len(original)), sep)

\* position of a chunk type in the order functions, imports, exports,
\* classes, variables
rank(type) ==
    CASE type = "function" -> 1
      [] type = "import" -> 2
      [] type = "export" -> 3
      [] type = "class" -> 4
      [] type = "variable" -> 5
      [] OTHER -> 0

categoryOrdered(cs, s) ==
    /\ \A j, k \in 1..Len(cs) : j < k => rank(cs[j].type) <= rank(cs[k].type)
    /\ LET fns == SelectSeq(cs, LAMBDA c : c.type = "function")
           cls == SelectSeq(cs, LAMBDA c : c.type = "class")
       IN  /\ [k \in 1..Len(fns) |-> fns[k].name]
                = [k \in 1..Len(s.functions) |-> s.functions[k].name]
           /\ [k \in 1..Len(cls) |-> cls[k].name] = s.classes

\* cs holds one import, one export and one variable chunk of the file of
\* the analysis where the list is non-empty, and none where it is empty
groupedOnce(cs, analysis) ==
    LET s == analysis.ast_summary
        one(list) == IF Len(list) > 0 THEN 1 ELSE 0
    IN  /\ countOf(cs, analysis.file, "import") = one(s.imports)
        /\ countOf(cs, analysis.file, "export") = one(s.exports)
        /\ countOf(cs, analysis.file, "variable") = one(s.variables)

----------------------------------------------------------------------------
(* Properties                                                               *)

\* C1 - Id uniqueness: the analyses of a run have pairwise distinct file
\* paths, and no two chunks of the result of chunkAll share an id.
C1_IdUniqueness ==
    pc = "chunked" =>
        \A j, k \in 1..Len(chunks) : j # k => chunks[j].id # chunks[k].id

\* C2 - Fallback exclusivity: the output of chunk holds a summary chunk if
\* and only if the five categories of the analysis are all empty, and then
\* it is exactly the one chunk with id <file>::summary.
C2_FallbackExclusivity ==
    chunkReturned =>
        LET s == chunkInput.ast_summary
        IN  /\ (\E k \in 1..Len(out) : out[k].type = "summary") <=> allEmpty(s)
            /\ allEmpty(s) =>
                /\ Len(out) = 1
                /\ out[1].id = chunkInput.file \o S_sep \o W_summary

C2_Witness ==
    /\ chunkReturned
    /\ allEmpty(chunkInput.ast_summary)
    /\ Len(out) = 1
    /\ out[1].type = "summary"

\* C3 - Merge size bound: after the merge pass every chunk longer than
\* maxSize is one of the chunks handed to the pass, unmerged; every chunk
\* the pass produced by merging is at most maxSize long.
C3_MergeSizeBound ==
    (chunkReturned /\ effective.combine) =>
        LET raw == buildChunks(chunkInput)
        IN  \A k \in 1..Len(out) :
                /\ Len(out[k].text) > effective.maxSize => out[k] \in Range(raw)
                /\ out[k] \notin Range(raw) => Len(out[k].text) <= effective.maxSize

C3_Witness ==
    /\ chunkReturned
    /\ effective.combine
    /\ \E k \in 1..Len(out) : out[k] \notin Range(buildChunks(chunkInput))
    /\ \E k \in 1..Len(out) : Len(out[k].text) > effective.maxSize

\* C4 - Split size bound: every chunk emitted by splitLargeChunks is at most
\* maxSize long, except a chunk whose text is exactly one line of an input
\* chunk, that line being longer than maxSize.
C4_SplitSizeBound ==
    pc = "split" =>
        \A k \in 1..Len(parts) :
            Len(parts[k].text) > splitMax =>
                \E j \in 1..Len(chunks) :
                    /\ chunks[j].file = parts[k].file
                    /\ includes(chunks[j].text, parts[k].text)
                    /\ parts[k].text \in Range(split(chunks[j].text, NL))

C4_Witness ==
    /\ pc = "split"
    /\ \E k \in 1..Len(parts) : Len(parts[k].text) > splitMax
    /\ \E k \in 1..Len(parts) :
        /\ includes(parts[k].text, S_nl)
        /\ includes(parts[k].id, S_hash)

C6_SplitOnPlus ==
    (chunkReturned /\ effective.combine) =>
        flat([k \in 1..Len(out) |-> split(out[k].id, "+")]) = ids(buildChunks(chunkInput))

\* C6 - Order preservation of the merge pass: the output ids are the
\* "+"-joins of consecutive runs of the original ids, the runs covering the
\* original sequence in order; when no original id contains "+", splitting
\* the output ids on "+" yields the original ids in their order.
C6_OrderPreservation ==
    (chunkReturned /\ effective.combine) =>
        LET original == ids(buildChunks(chunkInput))
        IN  /\ joinsRuns(ids(out), original, S_plus)
            /\ (\A k \in 1..Len(original) : ~includes(original[k], S_plus))
                => flat([k \in 1..Len(out) |-> split(out[k].id, "+")]) = original

C6_Witness ==
    /\ chunkReturned
    /\ effective.combine
    /\ Len(out) >= 2
    /\ Len(out) < Len(buildChunks(chunkInput))
    /\ ~includes(chunkInput.file, S_plus)

\* C7 - Fixed category order: the chunks built for one file come as
\* functions, imports, exports, classes, variables, functions and classes in
\* the order of the input lists, in chunk as in convertAnalysesToChunks.
C7_FixedCategoryOrder ==
    /\ (chunkReturned /\ ~effective.combine)
        => categoryOrdered(out, chunkInput.ast_summary)
    /\ pc = "converted" =>
        \A j \in 1..Len(analyses) :
            categoryOrdered(ofFile(embedChunks, analyses[j].file), analyses[j].ast_summary)

\* C8 - Function chunk rule: one chunk per function entry, of type function,
\* with id <file>::<name>, name <name>, and a text that holds the name, the
\* comma-joined parameters, the comma-joined calls, the async flag and the
\* exported flag.
C8_FunctionChunkRule ==
    (chunkReturned /\ ~effective.combine) =>
        LET fns == chunkInput.ast_summary.functions
        IN  /\ countOf(out, chunkInput.file, "function") = Len(fns)
            /\ \A k \in 1..Len(fns) :
                /\ out[k].type = "function"
                /\ out[k].id = chunkInput.file \o S_sep \o fns[k].name
                /\ out[k].name = fns[k].name
                /\ includes(out[k].text, fns[k].name)
                /\ includes(out[k].text, join(fns[k].params, S_comma))
                /\ includes(out[k].text, join(fns[k].calls, S_comma))
                /\ includes(out[k].text, boolStr(fns[k].isAsync))
                /\ includes(out[k].text, boolStr(fns[k].isExported))

\* C9 - Grouped categories: one file gets one import chunk, one export chunk
\* and one variable chunk exactly when the corresponding list is non-empty,
\* and none otherwise, in chunk as in convertAnalysesToChunks.
C9_GroupedCategories ==
    /\ (chunkReturned /\ ~effective.combine) => groupedOnce(out, chunkInput)
    /\ pc = "converted" => \A j \in 1..Len(analyses) : groupedOnce(embedChunks, analyses[j])

\* C10 - File attribution: every chunk of the result of chunkAll is made of
\* consecutive chunks built for one analysis and carries the file of that
\* analysis; every chunk splitLargeChunks makes of them carries the file of
\* the analysis whose chunk texts contain its text.
C10_FileAttribution ==
    /\ pc \in {"chunked", "split"} =>
        \E raw \in {[j \in 1..Len(analyses) |-> buildChunks(analyses[j])]} :
            \A k \in 1..Len(chunks) :
                \E j \in 1..Len(analyses) :
                    /\ chunks[k].file = analyses[j].file
                    /\ \E lo \in 1..Len(raw[j]) : \E hi \in lo..Len(raw[j]) :
                        /\ chunks[k].id = join(ids(SubSeq(raw[j], lo, hi)), S_plus)
                        /\ chunks[k].text = join(texts(SubSeq(raw[j], lo, hi)), S_nlnl)
    /\ pc = "split" =>
        \E all \in {[j \in 1..Len(analyses) |->
                        join(texts(buildChunks(analyses[j])), S_nlnl)]} :
            \A k \in 1..Len(parts) :
                \E j \in 1..Len(analyses) :
                    /\ parts[k].file = analyses[j].file
                    /\ includes(all[j], parts[k].text)

C10_Witness ==
    /\ pc = "split"
    /\ Len(analyses) >= 2
    /\ Len(chunks) < Len(flat([j \in 1..Len(analyses) |-> buildChunks(analyses[j])]))
    /\ Len(parts) > Len(chunks)
    /\ \E j, k \in 1..Len(chunks) : chunks[j].file # chunks[k].file

----------------------------------------------------------------------------
(* Properties of the merge pass, the split pass and the aggregation         *)

\* merged is cut into consecutive runs of original whose texts it joins, and
\* every chunk of merged has the type of the first chunk of its run
RECURSIVE typeOfFirst(_, _)
typeOfFirst(merged, original) ==
    IF Len(merged) = 0 THEN Len(original) = 0
    ELSE \E n \in 1..Len(original) :
            /\ merged[1].text = join(texts(SubSeq(original, 1, n)), S_nlnl)
            /\ merged[1].type = original[1].type
            /\ typeOfFirst(Tail(merged), SubSeq(original, n + 1, Len(original)))

\* the same with every chunk of a run having the type of the merged chunk
RECURSIVE typeOfAll(_, _)
typeOfAll(merged, original) ==
    IF Len(merged) = 0 THEN Len(original) = 0
    ELSE \E n \in 1..Len(original) :
            /\ merged[1].text = join(texts(SubSeq(original, 1, n)), S_nlnl)
            /\ \A j \in 1..n : original[j].type = merged[1].type
            /\ typeOfAll(Tail(merged), SubSeq(original, n + 1, Len(original)))

\* C11 as claimed - with the default options every chunk returned by chunk
\* holds content of the category its type names only.
C11_TypeFidelity ==
    (chunkReturned /\ effective = DEFAULT_OPTIONS) =>
        typeOfAll(out, buildChunks(chunkInput))

\* C11 - Type of a handed-off chunk: every chunk returned by chunk has the
\* type of the category that produced the first part of its content, or
\* summary for the fallback; a chunk that was not merged holds content of
\* its own category only.
C11_TypeOfFirstPart ==
    chunkReturned =>
        LET raw == buildChunks(chunkInput)
        IN  /\ typeOfFirst(out, raw)
            /\ \A k \in 1..Len(out) : ~includes(out[k].text, S_nlnl) => out[k] \in Range(raw)

C11_Witness ==
    /\ chunkReturned
    /\ effective = DEFAULT_OPTIONS
    /\ Len(out) = 1
    /\ out[1].type = "function"
    /\ Len(chunkInput.ast_summary.imports) > 0
    /\ Len(chunkInput.ast_summary.classes) > 0

\* C12 - Non-empty text: every chunk returned by chunk, merged or not, and
\* every chunk emitted by splitLargeChunks for them has a non-empty text.
C12_NonEmptyText ==
    /\ chunkReturned => \A k \in 1..Len(out) : Len(out[k].text) > 0
    /\ pc = "split" => \A k \in 1..Len(parts) : Len(parts[k].text) > 0

C12_Witness ==
    /\ pc = "split"
    /\ Len(parts) > Len(chunks)
    /\ \E k \in 1..Len(chunks) :
        /\ includes(chunks[k].text, S_nlnl)
        /\ Len(chunks[k].text) > splitMax
    /\ \E k \in 1..Len(chunks) : Len(split(chunks[k].text, NL)[1]) > splitMax

\* merged results from original by the merge step: a run of one chunk is
\* that chunk unchanged; a longer run has the joined ids and texts, the type
\* and file of its first chunk and no name; every merge inside a run fitted
\* maxSize, and the chunk after a run did not fit
RECURSIVE mergeSteps(_, _, _)
mergeSteps(merged, original, maxSize) ==
    IF Len(merged) = 0 THEN Len(original) = 0
    ELSE \E n \in 1..Len(original) :
            LET run  == SubSeq(original, 1, n)
                rest == SubSeq(original, n + 1, Len(original))
            IN  /\ n = 1 => merged[1] = run[1]
                /\ n > 1 => merged[1] = [id   |-> join(ids(run), S_plus),
                                         text |-> join(texts(run), S_nlnl),
                                         type |-> run[1].type,
                                         file |-> run[1].file]
                /\ \A k \in 2..n :
                    Len(join(texts(SubSeq(run, 1, k)), S_nlnl)) <= maxSize
                /\ Len(rest) > 0 =>
                    Len(merged[1].text \o S_nlnl \o rest[1].text) > maxSize
                /\ mergeSteps(Tail(merged), rest, maxSize)

\* C13 - Merge step: current and next are merged exactly when the length of
\* current.text + "\n\n" + next.text is at most maxSize; the merged chunk has
\* the id current.id + "+" + next.id, the joined text, the type and file of
\* current and no name; otherwise current is emitted unchanged and next
\* becomes current.
C13_MergeStep ==
    (chunkReturned /\ effective.combine) =>
        mergeSteps(out, buildChunks(chunkInput), effective.maxSize)

C13_Witness ==
    /\ chunkReturned
    /\ effective.combine
    /\ Len(out) >= 2
    /\ \E k \in 1..Len(out) :
        /\ "name" \notin DOMAIN out[k]
        /\ includes(out[k].id, S_plus)
        /\ Len(out[k].text) = effective.maxSize

\* the len characters of s after offset o are whole lines of s
lineAligned(s, o, len) ==
    /\ o = 0 \/ s[o] = NL
    /\ o + len = Len(s) \/ s[o + len + 1] = NL

\* the texts of seg from position k on are runs of whole lines of s that
\* follow each other, without overlap, after offset from
RECURSIVE inLineOrder(_, _, _, _)
inLineOrder(seg, k, s, from) ==
    IF k > Len(seg) THEN TRUE
    ELSE \E o \in from..(Len(s) - Len(seg[k].text)) :
            /\ lineAligned(s, o, Len(seg[k].text))
            /\ SubSeq(s, o + 1, o + Len(seg[k].text)) = seg[k].text
            /\ inLineOrder(seg, k + 1, s, o + Len(seg[k].text) + 1)

\* seg is what the split pass may emit for the chunk c: c itself when it
\* fits maxSize, else parts c.id#1, c.id#2, ... that copy every other field
\* and whose texts are lines of c.text in their order
partsOf(seg, c, maxSize) ==
    IF Len(c.text) <= maxSize THEN seg = <<c>>
    ELSE /\ \A k \in 1..Len(seg) :
            seg[k] = [c EXCEPT !.id = c.id \o S_hash \o numStr(k), !.text = seg[k].text]
         /\ inLineOrder(seg, 1, c.text, 0)

\* ps from position p on is cut into consecutive segments, one for each
\* chunk of cs from position q on, in order
RECURSIVE segmentedFrom(_, _, _, _, _)
segmentedFrom(ps, cs, p, q, maxSize) ==
    IF q > Len(cs) THEN p > Len(ps)
    ELSE \E n \in 1..(IF Len(cs[q].text) <= maxSize THEN 1 ELSE Len(ps)) :
            /\ p + n - 1 <= Len(ps)
            /\ \E seg \in {SubSeq(ps, p, p + n - 1)} : \E c \in {cs[q]} :
                    partsOf(seg, c, maxSize)
            /\ segmentedFrom(ps, cs, p + n, q + 1, maxSize)

\* ps is cut into consecutive segments, one for each chunk of cs in order
segmented(ps, cs, maxSize) == segmentedFrom(ps, cs, 1, 1, maxSize)

\* C14 - Split part identifiers: the parts of an input chunk longer than
\* maxSize are contiguous in the output, follow the order of its lines,
\* carry the ids originalId#1, originalId#2, ... without gaps and copy type,
\* file and name of the original.
C14_SplitPartIds ==
    pc = "split" => segmented(parts, chunks, splitMax)

C14_Witness ==
    /\ pc = "split"
    /\ Len(chunks) >= 2
    /\ \E k \in 1..Len(parts) :
        /\ "name" \in DOMAIN parts[k]
        /\ parts[k].id = chunks[1].id \o S_hash \o numStr(3)
    /\ \E k \in 1..Len(parts) : parts[k] = chunks[Len(chunks)]

\* the results of the calls of chunk made so far by chunkAll, one per file
perFile == [j \in 1..(i - 1) |-> chunk(analyses[j], options)]

RECURSIVE sumLen(_)
sumLen(ss) == IF Len(ss) = 0 THEN 0 ELSE Len(ss[1]) + sumLen(Tail(ss))

\* the position in the input of the file a chunk is attributed to
fileIndex(c) == CHOOSE j \in 1..Len(analyses) : analyses[j].file = c.file

\* C15 - Aggregation: the output of chunkAll is the concatenation, in input
\* file order, of the per-file outputs of chunk with the same options; its
\* length is the sum of the per-file lengths and chunks of an earlier file
\* precede chunks of a later file.
C15_Aggregation ==
    pc \in {"chunkAll", "chunked", "split"} =>
        /\ pc # "chunkAll" => i = Len(analyses) + 1
        /\ chunks = flat(perFile)
        /\ Len(chunks) = sumLen(perFile)
        /\ \A a, b \in 1..Len(chunks) :
            a < b => fileIndex(chunks[a]) <= fileIndex(chunks[b])

C15_Witness ==
    /\ pc = "chunked"
    /\ Len(analyses) = MaxFiles + 1
    /\ \A j \in 1..Len(analyses) : Len(chunk(analyses[j], options)) = 2
    /\ Len(chunks) = 2 * Len(analyses)
    /\ fileIndex(chunks[2]) < fileIndex(chunks[3])

\* C16 - Empty input: chunkAll applied to an empty file list returns an empty
\* chunk sequence, and the merge pass and splitLargeChunks applied to an
\* empty chunk list return an empty list.
C16_EmptyInput ==
    /\ (pc \in {"chunked", "split"} /\ Len(analyses) = 0) => chunks = <<>>
    /\ (pc = "split" /\ Len(chunks) = 0) => parts = <<>>
    /\ combineSmallChunks(<<>>, effective.maxSize) = <<>>

C16_Witness ==
    /\ pc = "split"
    /\ Len(analyses) = 0
    /\ Len(chunks) = 0
    /\ Len(parts) = 0

\* the options as the caller gave them, with the documented defaults
combineOption == IF "combine" \in DOMAIN options THEN options.combine ELSE TRUE
maxSizeOption == IF "maxSize" \in DOMAIN options THEN options.maxSize ELSE DEFAULT_MAX_SIZE

\* the part of a chunk id after `${file}::`
idRest(c) == SubSeq(c.id, Len(c.file) + Len(S_sep) + 1, Len(c.id))

\* C17 - Combine option: chunk applies the merge pass exactly when the
\* combine option is true (the default when options are omitted); with
\* combine = false the output is the raw builder sequence, in which no id
\* contains a "+" introduced by merging and every function and class chunk
\* keeps its name.
C17_CombineOption ==
    chunkReturned =>
        LET raw == buildChunks(chunkInput)
        IN  /\ combineOption => out = combineSmallChunks(raw, maxSizeOption)
            /\ ~combineOption =>
                /\ out = raw
                /\ \A k \in 1..Len(out) :
                    /\ SubSeq(out[k].id, 1, Len(out[k].file) + Len(S_sep))
                         = out[k].file \o S_sep
                    /\ ~includes(idRest(out[k]), S_plus)
                    /\ out[k].type \in {"function", "class"} =>
                         ("name" \in DOMAIN out[k] /\ out[k].name = idRest(out[k]))

C17_Witness ==
    /\ chunkReturned
    /\ ~combineOption
    /\ \E a, b \in 1..Len(out) :
        /\ out[a].type = "function" /\ "name" \in DOMAIN out[a]
        /\ out[b].type = "class" /\ "name" \in DOMAIN out[b]
    /\ combineSmallChunks(buildChunks(chunkInput), maxSizeOption) # out

\* C18 - No mutation: chunk, chunkAll, the merge pass and splitLargeChunks
\* leave their inputs unchanged: the FileAnalysis objects, the options, the
\* chunks already collected and the chunk list handed to splitLargeChunks
\* have the same contents after each call as before.
C18_NoMutation ==
    [][ /\ analyses' = analyses
        /\ options' = options
        /\ pc = "chunkAll" => SubSeq(chunks', 1, Len(chunks)) = chunks
        /\ pc = "chunked" => chunks' = chunks ]_vars

C18_Witness ==
    /\ pc = "split"
    /\ Len(analyses) >= 2
    /\ \E k \in 1..Len(chunks) : includes(chunks[k].id, S_plus)
    /\ Len(parts) > Len(chunks)

----------------------------------------------------------------------------
(* Properties of the embedding service                                      *)

\* the batch size the README states
documentedBatchSize == 100

ceilDiv(a, b) == (a + b - 1) \div b

\* C20 - Embedding batch size: embedRepository on N chunks performs
\* ceil(N/100) batches, each of at most 100 chunks, covering every chunk
\* exactly once in input order.
C20_BatchesOf100 ==
    epc = "done" =>
        /\ Len(batches) = ceilDiv(Len(echunks), documentedBatchSize)
        /\ \A b \in 1..Len(batches) : Len(batches[b]) <= documentedBatchSize
        /\ flat(batches) = echunks

----------------------------------------------------------------------------
(* Relations between the inputs and outputs of the split and merge passes   *)

\* the chunks of cs that fit maxSize, in order
fitting(cs, maxSize) == SelectSeq(cs, LAMBDA c : Len(c.text) <= maxSize)

\* the chunks of cs whose id has no "#", in order
unsuffixed(cs) == SelectSeq(cs, LAMBDA c : ~includes(c.id, S_hash))

\* C21 - Split pass-through: splitLargeChunks returns every input chunk
\* whose text.length <= maxSize unchanged (same id without "#" suffix, same
\* text, type, file and name) and in its original relative position; only
\* chunks with text.length > maxSize receive "#"-suffixed ids.
C21_SplitPassThrough ==
    pc = "split" =>
        /\ unsuffixed(parts) = fitting(chunks, splitMax)
        /\ \A k \in 1..Len(parts) :
            includes(parts[k].id, S_hash) =>
                \E q \in 1..Len(chunks) :
                    /\ Len(chunks[q].text) > splitMax
                    /\ Len(parts[k].id) > Len(chunks[q].id)
                    /\ SubSeq(parts[k].id, 1, Len(chunks[q].id) + 1)
                         = chunks[q].id \o S_hash

C21_Witness ==
    /\ pc = "split"
    /\ \E a, b, c \in 1..Len(parts) :
        /\ a < b /\ b < c
        /\ includes(parts[a].id, S_hash)
        /\ ~includes(parts[b].id, S_hash)
        /\ "name" \in DOMAIN parts[b]
        /\ parts[b] \in Range(chunks)
        /\ includes(parts[c].id, S_hash)

\* ps from position p on is cut into consecutive non-empty segments, one for
\* each chunk of cs from position q on, whose texts joined with "\n" are the
\* text of the chunk
RECURSIVE rejoins(_, _, _, _)
rejoins(ps, cs, p, q) ==
    IF q > Len(cs) THEN p > Len(ps)
    ELSE \E n \in 1..(Len(ps) - p + 1) :
            /\ \E seg \in {SubSeq(ps, p, p + n - 1)} :
                    join(texts(seg), S_nl) = cs[q].text
            /\ rejoins(ps, cs, p + n, q + 1)

\* C22 - Split round trip: for every input chunk of splitLargeChunks, joining
\* the texts of the chunks emitted for it with "\n" reproduces the original
\* text exactly, empty lines included; in particular every input chunk
\* yields at least one output chunk.
C22_SplitRoundTrip ==
    pc = "split" => rejoins(parts, chunks, 1, 1)

\* C23 - Merge maximality: in the output of the merge pass over one file's
\* chunks no two adjacent chunks a, b satisfy
\* length(a.text + "\n\n" + b.text) <= maxSize; hence applying the merge
\* pass a second time with the same maxSize changes nothing.
C23_MergeMaximality ==
    (chunkReturned /\ effective.combine) =>
        /\ \A k \in 1..(Len(out) - 1) :
            Len(out[k].text) + Len(S_nlnl) + Len(out[k + 1].text) > effective.maxSize
        /\ combineSmallChunks(out, effective.maxSize) = out

C23_Witness ==
    /\ chunkReturned
    /\ effective.combine
    /\ Len(out) >= 2
    /\ Len(buildChunks(chunkInput)) >= Len(out) + 2
    /\ \E k \in 1..(Len(out) - 1) :
        Len(out[k].text) <= effective.maxSize /\ Len(out[k + 1].text) <= effective.maxSize

\* C24 - Split idempotence: splitLargeChunks applied with the same maxSize
\* to its own result returns that result, ids included, also when a chunk
\* contains a single line longer than maxSize.
C24_SplitIdempotence ==
    pc = "split" => splitLargeChunks(parts, splitMax) = parts

\* C25 - Embedding accounting: for every chunk list and every pattern of
\* embedding failures and upsert failures, the result of embedRepository
\* satisfies embeddedChunks + failedChunks = totalChunks = number of input
\* chunks, and chunkDetails holds exactly one entry per input chunk, in input
\* order, carrying either an embedding or an error.
C25_EmbeddingAccounting ==
    epc = "done" =>
        /\ eresult.totalChunks = Len(echunks)
        /\ eresult.embeddedChunks + eresult.failedChunks = eresult.totalChunks
        /\ Len(eresult.chunkDetails) = Len(echunks)
        /\ \A k \in 1..Len(echunks) :
            /\ eresult.chunkDetails[k].chunk = echunks[k]
            /\ ("embedding" \in DOMAIN eresult.chunkDetails[k])
                 # ("error" \in DOMAIN eresult.chunkDetails[k])
        /\ eresult.embeddedChunks =
             Cardinality({k \in 1..Len(eresult.chunkDetails) :
                            "embedding" \in DOMAIN eresult.chunkDetails[k]})

C25_Witness ==
    /\ epc = "done"
    /\ Len(batches) >= 3
    /\ eresult.embeddedChunks > 0
    /\ eresult.failedChunks > 1
    /\ \E u \in 1..Len(upserts) : ~upserts[u].ok
    /\ \E u \in 1..Len(upserts) : upserts[u].ok

\* the ids of the vectors the index holds: those of the upserts that resolved
stored ==
    UNION { {upserts[u].vectors[k] : k \in 1..Len(upserts[u].vectors)} :
              u \in {v \in 1..Len(upserts) : upserts[v].ok} }

\* C26 - Embedded means stored: a chunk is counted in embeddedChunks of the
\* embedRepository result only if its vector was successfully upserted into
\* the vector index; when the upsert of a batch fails, the chunks of that
\* batch are not counted as embedded.
C26_EmbeddedMeansStored ==
    epc = "done" => eresult.embeddedChunks <= Cardinality(stored)

----------------------------------------------------------------------------
(* Properties of analyzeRepository                                          *)

\* the stages analyzeRepository has run, and the errors it has collected
ran(stage) == \E k \in 1..Len(atrace.stages) : atrace.stages[k] = stage
hasError(e) == \E k \in 1..Len(alocal.errors) : alocal.errors[k] = e

\* C27 - Stage ordering in analyzeRepository: analyses are saved before
\* chunking, chunking happens before embedding, and embedding is attempted
\* only when enableEmbedding is true and chunking was enabled and succeeded;
\* a failure of chunking or of embedding is appended to errors and the call
\* still returns a result (with chunks or embeddingResult undefined) instead
\* of throwing.
C27_StageOrdering ==
    /\ \E n \in 0..3 : atrace.stages = SubSeq(<<"save", "chunk", "embed">>, 1, n)
    /\ ran("chunk") => alocal.saved = defined(alocal.analyses)
    /\ ran("embed") =>
        /\ ran("save")
        /\ ainput.enableEmbedding
        /\ ainput.enableChunking
        /\ ran("chunk")
        /\ alocal.chunks.defined
        /\ ~hasError(chunkingError)
    /\ apc \in {"returning", "returned"} =>
        /\ (ainput.enableChunking /\ ~alocal.chunks.defined) <=> hasError(chunkingError)
        /\ (ran("embed") /\ ~alocal.embeddingResult.defined) <=> hasError(embeddingError)
    /\ apc = "thrown" => ~ran("chunk") /\ ~ran("embed")

C27_Witness ==
    /\ apc = "returned"
    /\ atrace.stages = <<"save", "chunk", "embed">>
    /\ Len(alocal.chunks.value) >= 2
    /\ hasError(embeddingError)
    /\ ~alocal.embeddingResult.defined
    /\ \E f \in 1..Len(ainput.files) : hasError(fileError(ainput.files[f].path))

\* the per-file errors collected
fileErrors == SelectSeq(alocal.errors, LAMBDA e : e.error = "Error analyzing")

\* the files whose loop iteration did not throw, as analyses
analysed ==
    LET kept == SelectSeq(ainput.files, LAMBDA f : ~f.throws)
    IN  [k \in 1..Len(kept) |-> [file |-> kept[k].path, ast_summary |-> kept[k].summary]]

\* C28 - Per-file failure isolation in analyzeRepository: a file whose
\* analysis step throws is recorded in errors and skipped, all remaining
\* files are still processed in order, and at return processedFiles equals
\* the number of entries in analyses and processedFiles plus the number of
\* per-file errors equals totalFiles; the processedFiles value passed to
\* progressCallback never decreases.
C28_FailureIsolation ==
    /\ \A a, b \in 1..Len(atrace.progress) :
        a <= b => atrace.progress[a] <= atrace.progress[b]
    /\ apc = "returned" =>
        LET r == analysisResult(ainput, alocal)
        IN  /\ Len(atrace.progress) = r.totalFiles
            /\ r.analyses = analysed
            /\ r.processedFiles = Len(r.analyses)
            /\ r.processedFiles + Len(fileErrors) = r.totalFiles
            /\ \A f \in 1..Len(ainput.files) :
                ainput.files[f].throws <=> hasError(fileError(ainput.files[f].path))

C28_Witness ==
    /\ apc = "returned"
    /\ Len(ainput.files) = 3
    /\ ~ainput.files[1].throws
    /\ ainput.files[2].throws
    /\ ~ainput.files[3].throws
    /\ atrace.progress = <<0, 1, 1>>
    /\ alocal.processedFiles = 2

\* the analyses handed to the save call, as a set
savedAnalyses == {sinput[k] : k \in 1..Len(sinput)}

\* every analysis file of the save call lies in the directory of its
\* summary.json and index.json
oneFolder == \A k \in 1..Len(slocal.savedFiles) : slocal.savedFiles[k].folder = slocal.repoDir

\* no two analyses of the save call were written to the same file
noOverwrite ==
    \A a, b \in 1..Len(slocal.savedFiles) :
        a # b => slocal.savedFiles[a] # slocal.savedFiles[b]

\* C29: after saveMultipleFileAnalyses has succeeded, loadRepoAnalyses returns
\* every saved analysis exactly once: the analysis files of the call lie in the
\* directory of its summary.json and index.json however the clock advances, and
\* no two analyses overwrite each other's file.
C29_StorageRoundTrip ==
    (spc = "loaded" /\ sinput # <<>>) =>
        /\ slocal.loaded.ok
        /\ slocal.loaded.analyses = savedAnalyses
        /\ oneFolder
        /\ noOverwrite

\* C30: for one EmbeddingService the embedding model pipeline is loaded at most
\* once under every interleaving of embedRepository and searchSimilar calls
\* that start before the first load has finished, and isInitialized stays
\* false as long as no load has succeeded.
C30_SingleInitialization ==
    /\ loadCount <= 1
    /\ (loadCount = 0 => ~isInitialized)

====
